---- MODULE Spec2Model ----
(***************************************************************************)
(* A model of the shape-packing core of nkrbehgamehelper:                  *)
(*   src/src/decomposition.py  decompose_shape_to_rectangles               *)
(*   src/src/solver.py         SolutionCallback, PackingSolver             *)
(*                                                                         *)
(* One behaviour of Spec is one call of PackingSolver.solve.  The call is  *)
(* cut where control passes to and from the CP-SAT engine:                 *)
(*   solve                 the code of solve() up to solver.Solve(...)     *)
(*   on_solution_callback  one invocation of the callback by the engine    *)
(*   process_solution      the engine returns; _process_solution runs      *)
(* The CP model the code builds is represented by the predicate            *)
(* ModelAdmits over assignments of (is_used, x, y) to the instances; the   *)
(* engine is a nondeterministic choice among the assignments the model     *)
(* admits and among the terminal statuses CP-SAT can report.               *)
(*                                                                         *)
(* SpecDecomp applies decompose_shape_to_rectangles to every point set of  *)
(* a small grid.                                                           *)
(***************************************************************************)
EXTENDS Integers, Sequences, FiniteSets, TLC

(* ------------------------------ bounds --------------------------------- *)
\* largest number of requested shape instances
MaxShapes == 2
\* board width, and largest board height
MaxW == 2
MaxH == 2
\* side of the grid the decomposition inputs are drawn from
DecompDim == 3
MaxCalls == 2
MaxRepeatShapes == 1
MaxModelShapes == 3
MaxUncheckedShapes == 1
MaxPresses == 3

(* ------------------------------ inputs --------------------------------- *)
\* Shape (data_models.py): name, points, area.  color is passed through
\* unchanged and takes part in no decision; it is left out.
\* Two catalogue entries share the name "A" with different points: the
\* solver accepts any list of Shape and never compares names with points.
ShapeCatalogue ==
    { [name |-> "A", points |-> {<<0, 0>>}],
      [name |-> "A", points |-> {<<0, 0>>, <<1, 0>>, <<0, 1>>}],
      [name |-> "B", points |-> {<<0, 0>>, <<1, 0>>}] }

ShapeNames == {s.name : s \in ShapeCatalogue}

\* solve_packing builds every Shape with area = len(points)
Shape(sd) == [name |-> sd.name, points |-> sd.points, area |-> Cardinality(sd.points)]

VARIABLES
    shapes_to_pack,        \* self.shapes_to_pack: sequence of Shape
    board_width,           \* self.board_width
    board_height,          \* self.board_height
    allowed_cells,         \* self.allowed_cells: set of <<row, col>>
    must_place_names,      \* self.must_place_names
    decomposed_shapes,     \* self.decomposed_shapes: name -> rectangles
    shape_vars,            \* self.shape_vars: the Shape of each variable set
    strategy,              \* "P0" / "P1", "" before solve chose it
    pc,                    \* "start", "search", "done" ("idle" in SpecDecomp)
    solution,              \* callback.solution: <<>> is None, <<s>> a solution
    best_objective_value,  \* callback._best_objective_value
    stop_requested,        \* StopSearch() has been called in this search
    last_candidate,        \* history: the candidate of the latest callback
    last_stop,             \* history: the latest callback called StopSearch
    max_offered,           \* history: largest area of a candidate so far
    engine_status,         \* status returned by solver.Solve, "" before
    result,                \* the PackingResult returned, <<>> before
    assignment,            \* SpecAdmit: <<a>>, an assignment the engine found
    dec_list,              \* SpecDecomp: the points argument, a list
    dec_points,            \* SpecDecomp: point_set, the set of the argument
    dec_rects,             \* SpecDecomp: its return value
    dec_pc,                \* SpecDecomp: "call" / "returned" ("idle" in Spec)
    gui_button,            \* SpecGui: state of calculate_button
    gui_threads,           \* SpecGui: where each calculation thread stands
    gui_queue,             \* SpecGui: callbacks scheduled with after(0, ...)
    gui_solved             \* SpecGui: time limits solve_packing was called with

inputVars == <<shapes_to_pack, board_width, board_height, allowed_cells, must_place_names>>
trackerVars == <<solution, best_objective_value, stop_requested, last_candidate,
                 last_stop, max_offered>>
decVars == <<dec_list, dec_points, dec_rects, dec_pc>>
builtVars == <<decomposed_shapes, shape_vars>>
guiVars == <<gui_button, gui_threads, gui_queue, gui_solved>>
vars == <<inputVars, builtVars, strategy, pc, trackerVars, engine_status,
          result, assignment, decVars, guiVars>>

(* ------------------- decomposition.py: the decomposer ------------------ *)
\* line 19: min(point_set, key=lambda p: (p[1], p[0]))
MinPointColumnFirst(point_set) ==
    CHOOSE p \in point_set :
        \A q \in point_set : p[1] < q[1] \/ (p[1] = q[1] /\ p[2] <= q[2])

MinPoint(point_set) ==
    CHOOSE p \in point_set :
        \A q \in point_set : p[2] < q[2] \/ (p[2] = q[2] /\ p[1] <= q[1])

\* lines 23-25: extend to the right while (x + width, y) is in the set
RECURSIVE GrowWidth(_, _, _, _)
GrowWidth(point_set, x, y, width) ==
    IF <<x + width, y>> \in point_set
    THEN GrowWidth(point_set, x, y, width + 1)
    ELSE width

\* lines 31-35: is the whole row [x, x+width) at y+height in the set
NextRowSolidFirstOnly(point_set, x, y, width, height) ==
    <<x, y + height>> \in point_set

NextRowSolid(point_set, x, y, width, height) ==
    \A i \in 0..(width - 1) : <<x + i, y + height>> \in point_set

\* lines 28-39: extend downwards while the next row is solid
RECURSIVE GrowHeight(_, _, _, _, _)
GrowHeight(point_set, x, y, width, height) ==
    IF NextRowSolid(point_set, x, y, width, height)
    THEN GrowHeight(point_set, x, y, width, height + 1)
    ELSE height

\* lines 19-42: the rectangle one pass of the outer loop emits
NextRectangle(point_set) ==
    LET start_point == MinPoint(point_set)
        x == start_point[1]
        y == start_point[2]
        width == GrowWidth(point_set, x, y, 1)
        height == GrowHeight(point_set, x, y, width, 1)
    IN  <<x, y, width, height>>

\* lines 45-48: the cells of a rectangle (dx, dy, width, height)
RectCells(rect) ==
    {<<rect[1] + i, rect[2] + j>> : i \in 0..(rect[3] - 1), j \in 0..(rect[4] - 1)}

\* lines 17-50: the outer loop
RECURSIVE DecomposeLoop(_, _)
DecomposeLoop(point_set, rectangles) ==
    IF point_set = {}
    THEN rectangles
    ELSE LET rect == NextRectangle(point_set)
         IN  DecomposeLoop(point_set \ RectCells(rect), Append(rectangles, rect))

decompose_shape_to_rectangles(points) ==
    IF points = {} THEN <<>> ELSE DecomposeLoop(points, <<>>)

(* ------------------- solver.py: the model builder ---------------------- *)
\* len(self.shapes_to_pack), the requested instances
NumShapes == Len(shapes_to_pack)
\* the variable sets of self.shape_vars, one per _create_variables pass
Instances == 1..Len(shape_vars)

SetMax(S) == CHOOSE m \in S : \A e \in S : e <= m

\* _create_variables lines 133-136: bounding box from the largest offsets
shape_width(shape) ==
    (IF shape.points # {} THEN SetMax({p[1] : p \in shape.points}) ELSE 0) + 1
shape_height(shape) ==
    (IF shape.points # {} THEN SetMax({p[2] : p \in shape.points}) ELSE 0) + 1

\* _create_variables lines 139-140: the domains of x and y
XDomainLoose(shape) == 0..(board_width - shape_width(shape) + 1)

XDomain(shape) == 0..(board_width - shape_width(shape))
YDomain(shape) == 0..(board_height - shape_height(shape))

\* _create_variables lines 138-140: one (is_used, x, y) per instance, each
\* variable within its domain.  An empty domain leaves no assignment.
RECURSIVE AssignmentsUpTo(_)
AssignmentsUpTo(n) ==
    IF n = 0 THEN {<<>>}
    ELSE {Append(a, v) :
            a \in AssignmentsUpTo(n - 1),
            v \in [is_used : BOOLEAN,
                   x : XDomain(shape_vars[n]),
                   y : YDomain(shape_vars[n])]}

Assignments == AssignmentsUpTo(Len(shape_vars))

\* some NewIntVar was created with an upper bound below its lower bound
HasEmptyDomain ==
    \E i \in Instances : \/ XDomain(shape_vars[i]) = {}
                         \/ YDomain(shape_vars[i]) = {}

\* _prepare_data lines 126-128: a name not yet in decomposed_shapes gets the
\* rectangles of the first shape of that name; later shapes of the name, and
\* later calls, reuse them
FirstOfName(nm) ==
    CHOOSE i \in 1..NumShapes :
        /\ shapes_to_pack[i].name = nm
        /\ \A j \in 1..NumShapes : shapes_to_pack[j].name = nm => i <= j

prepare_data ==
    [nm \in (DOMAIN decomposed_shapes) \cup {shapes_to_pack[i].name : i \in 1..NumShapes} |->
        IF nm \in DOMAIN decomposed_shapes
        THEN decomposed_shapes[nm]
        ELSE decompose_shape_to_rectangles(shapes_to_pack[FirstOfName(nm)].points)]

\* _create_variables lines 132-154: one more variable set per requested
\* shape is appended to self.shape_vars
create_variables == shape_vars \o shapes_to_pack

\* _add_constraints lines 159-162
MustPlaceIgnored(a) == TRUE

MustPlaceOK(a) ==
    \A i \in Instances :
        shape_vars[i].name \in must_place_names => a[i].is_used

\* _add_constraints lines 165-166: allowed_indices, r * W + c
allowed_indices == {cell[1] * board_width + cell[2] : cell \in allowed_cells}

\* _add_constraints lines 171-174: cell_var and its defining equality
CellIndex(a, i, p) == (a[i].y + p[2]) * board_width + (a[i].x + p[1])

\* _add_constraints lines 168-178: every cell_var lies in its domain, and in
\* allowed_indices when the instance is used
AllowedUnenforced(a) ==
    \A i \in Instances : \A p \in shape_vars[i].points :
        CellIndex(a, i, p) \in 0..(board_height * board_width - 1)

AllowedOK(a) ==
    \A i \in Instances : \A p \in shape_vars[i].points :
        /\ CellIndex(a, i, p) \in 0..(board_height * board_width - 1)
        /\ a[i].is_used => CellIndex(a, i, p) \in allowed_indices

\* _add_constraints lines 183-205: the boxes, one per instance and rectangle
\* of decomposed_shapes[name]: <<instance, x_start, x_end, y_start, y_end>>
Boxes(a) ==
    UNION { { <<i, a[i].x + rect[1], a[i].x + rect[1] + rect[3],
                   a[i].y + rect[2], a[i].y + rect[2] + rect[4]>> :
                rect \in {decomposed_shapes[shape_vars[i].name][k] :
                            k \in DOMAIN decomposed_shapes[shape_vars[i].name]} } :
            i \in Instances }

\* two boxes share no interior point
BoxesDisjoint(b1, b2) ==
    \/ b1[3] <= b2[2] \/ b2[3] <= b1[2]
    \/ b1[5] <= b2[4] \/ b2[5] <= b1[4]

\* _add_constraints lines 188-207: x_start, x_end in [0, W], y_start, y_end
\* in [0, H] for every box (unconditionally), and AddNoOverlap2D over the
\* boxes whose instance is used.  Boxes of one instance that coincide stand
\* for rectangles of one decomposition, which never coincide.
NoOverlapDropped(a) == TRUE

NoOverlapOK(a) ==
    LET boxes == Boxes(a)
    IN  /\ \A b \in boxes : /\ b[2] \in 0..board_width /\ b[3] \in 0..board_width
                             /\ b[4] \in 0..board_height /\ b[5] \in 0..board_height
        /\ \A b1 \in boxes : \A b2 \in boxes :
              (b1 # b2 /\ a[b1[1]].is_used /\ a[b2[1]].is_used) => BoxesDisjoint(b1, b2)

\* _add_constraints lines 210-219: consecutive instances of one name
ConsecutiveSameName(i, j) ==
    /\ i < j
    /\ shape_vars[i].name = shape_vars[j].name
    /\ \A k \in Instances : (i < k /\ k < j) => shape_vars[k].name # shape_vars[i].name

SymmetryDropped(a) == TRUE

SymmetryOK(a) ==
    \A i \in Instances : \A j \in Instances :
        (ConsecutiveSameName(i, j) /\ a[i].is_used /\ a[j].is_used) => a[i].x <= a[j].x

\* the model handed to the engine: _create_variables and _add_constraints
ModelAdmits(a) ==
    /\ a \in Assignments
    /\ MustPlaceOK(a)
    /\ AllowedOK(a)
    /\ NoOverlapOK(a)
    /\ SymmetryOK(a)

\* _set_objective lines 223-224, and callback line 28
RECURSIVE SumArea(_, _)
SumArea(a, n) ==
    IF n = 0 THEN 0
    ELSE SumArea(a, n - 1) + shape_vars[n].area * (IF a[n].is_used THEN 1 ELSE 0)

Objective(a) == SumArea(a, Len(shape_vars))

\* the objective value of an optimal assignment, -1 when the model admits none
OptimalValue ==
    LET vals == {Objective(a) : a \in {b \in Assignments : ModelAdmits(b)}}
    IN  IF vals = {} THEN -1 ELSE SetMax(vals)

(* ------------------- solver.py: SolutionCallback ----------------------- *)
\* the instances, in request order, that the assignment uses / leaves out
RECURSIVE SelectInstances(_, _, _)
SelectInstances(a, n, used) ==
    IF n = 0 THEN <<>>
    ELSE LET rest == SelectInstances(a, n - 1, used)
         IN  IF a[n].is_used = used THEN Append(rest, n) ELSE rest

\* on_solution_callback line 27
placed_shapes_count(a) == Cardinality({i \in Instances : a[i].is_used})

\* on_solution_callback line 28
current_area(a) == Objective(a)

\* on_solution_callback lines 46-55
PlacedOf(a) ==
    LET idx == SelectInstances(a, Len(shape_vars), TRUE)
    IN  [k \in 1..Len(idx) |->
            [name |-> shape_vars[idx[k]].name,
             x |-> a[idx[k]].x,
             y |-> a[idx[k]].y,
             points |-> shape_vars[idx[k]].points]]

\* on_solution_callback lines 56-58
UnplacedAllNames(a) == [k \in Instances |-> shape_vars[k].name]

UnplacedOf(a) ==
    LET idx == SelectInstances(a, Len(shape_vars), FALSE)
    IN  [k \in 1..Len(idx) |-> shape_vars[idx[k]].name]

\* solve line 104
board_area == Cardinality(allowed_cells)

\* solve lines 103-105
StrategyStrict(total_shape_area, area_of_board) ==
    IF total_shape_area < area_of_board THEN "P0" ELSE "P1"

ChooseStrategy(total_shape_area, area_of_board) ==
    IF total_shape_area <= area_of_board THEN "P0" ELSE "P1"

RECURSIVE TotalShapeArea(_)
TotalShapeArea(n) ==
    IF n = 0 THEN 0 ELSE TotalShapeArea(n - 1) + shapes_to_pack[n].area

\* on_solution_callback lines 31-39: does this callback call StopSearch
PerfectStop(strat, count, area) ==
    \/ strat = "P0" /\ count = NumShapes
    \/ strat = "P1" /\ area = board_area

\* on_solution_callback line 42
ImprovesOrEqual(area, best) == area >= best

Improves(area, best) == area > best

\* on_solution_callback lines 42-59: the tracker after one candidate
ForgetfulOffer(tracker, a) ==
    [best |-> current_area(a),
     solution |-> <<[placed_shapes |-> PlacedOf(a), unplaced_shapes |-> UnplacedOf(a)]>>]

TrackerOffer(tracker, a) ==
    IF Improves(current_area(a), tracker.best)
    THEN [best |-> current_area(a),
          solution |-> <<[placed_shapes |-> PlacedOf(a), unplaced_shapes |-> UnplacedOf(a)]>>]
    ELSE tracker

(* ------------------- solver.py: the result assembler ------------------- *)
CpStatuses == {"cp_OPTIMAL", "cp_FEASIBLE", "cp_INFEASIBLE", "cp_UNKNOWN", "cp_MODEL_INVALID"}

\* _process_solution lines 230-237
StatusMapOptimistic(status) ==
    CASE status = "cp_OPTIMAL" -> "OPTIMAL"
      [] status = "cp_FEASIBLE" -> "OPTIMAL"
      [] status = "cp_INFEASIBLE" -> "INFEASIBLE"
      [] status = "cp_UNKNOWN" -> "INFEASIBLE"
      [] status = "cp_MODEL_INVALID" -> "MODEL_INVALID"
      [] OTHER -> "UNKNOWN"

status_map(status) ==
    CASE status = "cp_OPTIMAL" -> "OPTIMAL"
      [] status = "cp_FEASIBLE" -> "FEASIBLE"
      [] status = "cp_INFEASIBLE" -> "INFEASIBLE"
      [] status = "cp_UNKNOWN" -> "UNKNOWN"
      [] status = "cp_MODEL_INVALID" -> "MODEL_INVALID"
      [] OTHER -> "UNKNOWN"

AllNames == [k \in 1..NumShapes |-> shapes_to_pack[k].name]

\* _process_solution lines 239-268
ProcessSolutionNoDefault(status, callback_solution) ==
    [placed_shapes |-> IF callback_solution # <<>>
                       THEN callback_solution[1].placed_shapes ELSE <<>>,
     unplaced_shapes |-> IF callback_solution # <<>>
                         THEN callback_solution[1].unplaced_shapes ELSE <<>>,
     board_size |-> <<board_width, board_height>>,
     status |-> status_map(status)]

ProcessSolution(status, callback_solution) ==
    [placed_shapes |-> IF callback_solution # <<>>
                       THEN callback_solution[1].placed_shapes ELSE <<>>,
     unplaced_shapes |-> IF callback_solution # <<>>
                         THEN callback_solution[1].unplaced_shapes ELSE AllNames,
     board_size |-> <<board_width, board_height>>,
     status |-> status_map(status)]

\* solve line 89: if not self.allowed_cells (an empty list, or None)
NeverShortCircuits == FALSE

ShortCircuits == allowed_cells = {}

\* solve lines 90-95: the result when allowed_cells is empty
ShortCircuitResult ==
    [placed_shapes |-> <<>>,
     unplaced_shapes |-> AllNames,
     board_size |-> <<board_width, board_height>>,
     status |-> "INFEASIBLE"]

(* ------------------- the engine (solver.Solve, line 120) --------------- *)
\* The statuses CP-SAT can return.  After a solution was reported: FEASIBLE
\* (time limit or StopSearch), or OPTIMAL once a reported solution reaches
\* the optimum.  With no solution reported: UNKNOWN (time limit), INFEASIBLE
\* when the model admits nothing, MODEL_INVALID when a variable was given
\* an empty domain.
TerminalStatuses ==
    IF last_candidate # <<>>
    THEN {"cp_FEASIBLE"} \cup (IF max_offered = OptimalValue THEN {"cp_OPTIMAL"} ELSE {})
    ELSE {"cp_UNKNOWN"}
         \cup (IF OptimalValue = -1 THEN {"cp_INFEASIBLE"} ELSE {})
         \cup (IF HasEmptyDomain THEN {"cp_MODEL_INVALID"} ELSE {})

(* ------------------------------ behaviour ------------------------------ *)
NoTracker ==
    /\ solution = <<>>
    /\ best_objective_value = -1
    /\ stop_requested = FALSE
    /\ last_candidate = <<>>
    /\ last_stop = FALSE
    /\ max_offered = -1

DecIdle ==
    /\ dec_list = <<>>
    /\ dec_points = {}
    /\ dec_rects = <<>>
    /\ dec_pc = "idle"

\* gui.py: the window as built, before Calculate was ever pressed
GuiIdle ==
    /\ gui_button = "normal"
    /\ gui_threads = [t \in 1..MaxPresses |-> "unstarted"]
    /\ gui_queue = <<>>
    /\ gui_solved = {}

\* PackingSolver.__init__ lines 75-83, with the caller's arguments;
\* SolutionCallback.__init__ lines 22-23 gives the tracker's first values
InitUpTo(max_shapes) ==
    /\ shapes_to_pack \in UNION {[1..n -> {Shape(sd) : sd \in ShapeCatalogue}] : n \in 0..max_shapes}
    /\ board_width = MaxW
    /\ board_height \in 1..MaxH
    /\ allowed_cells \in SUBSET ((0..(board_height - 1)) \X (0..(board_width - 1)))
    /\ must_place_names \in SUBSET ShapeNames
    /\ decomposed_shapes = [nm \in {} |-> <<>>]
    /\ shape_vars = <<>>
    /\ strategy = ""
    /\ pc = "start"
    /\ NoTracker
    /\ engine_status = ""
    /\ result = <<>>
    /\ assignment = <<>>
    /\ DecIdle
    /\ GuiIdle

Init == InitUpTo(MaxShapes)

\* solve lines 89-119: short-circuit, or build the model and pick the strategy
solve ==
    /\ pc = "start"
    /\ IF ShortCircuits
       THEN /\ result' = <<ShortCircuitResult>>
            /\ pc' = "done"
            /\ UNCHANGED <<builtVars, strategy>>
       ELSE /\ decomposed_shapes' = prepare_data
            /\ shape_vars' = create_variables
            /\ strategy' = ChooseStrategy(TotalShapeArea(NumShapes), board_area)
            /\ pc' = "search"
            /\ UNCHANGED result
    /\ UNCHANGED <<inputVars, trackerVars, engine_status, assignment, decVars, guiVars>>

\* on_solution_callback lines 25-59, for a candidate the model admits
on_solution_callback ==
    /\ pc = "search"
    /\ \E a \in Assignments :
        /\ ModelAdmits(a)
        /\ LET stop == PerfectStop(strategy, placed_shapes_count(a), current_area(a))
               after == TrackerOffer([best |-> best_objective_value, solution |-> solution], a)
           IN  /\ stop_requested' = (stop_requested \/ stop)
               /\ last_stop' = stop
               /\ best_objective_value' = after.best
               /\ solution' = after.solution
               /\ last_candidate' = <<[placed_shapes |-> PlacedOf(a),
                                       unplaced_shapes |-> UnplacedOf(a),
                                       is_used |-> [i \in Instances |-> a[i].is_used],
                                       count |-> placed_shapes_count(a),
                                       area |-> current_area(a)]>>
               /\ max_offered' = IF current_area(a) > max_offered
                                 THEN current_area(a) ELSE max_offered
    /\ UNCHANGED <<inputVars, builtVars, strategy, pc, engine_status, result,
                   assignment, decVars, guiVars>>

\* solve lines 120-122 and _process_solution: the engine returns
process_solution ==
    /\ pc = "search"
    /\ \E status \in TerminalStatuses :
        /\ engine_status' = status
        /\ result' = <<ProcessSolution(status, solution)>>
    /\ pc' = "done"
    /\ UNCHANGED <<inputVars, builtVars, strategy, trackerVars, assignment, decVars, guiVars>>

Next == solve \/ on_solution_callback \/ process_solution

Spec == Init /\ [][Next]_vars

(* ---------------- solve called again on the same solver ---------------- *)
InitRepeat == InitUpTo(MaxRepeatShapes)

\* the caller invokes solve (lines 85-122) once more on the same PackingSolver:
\* the CpSolver and the SolutionCallback are locals of the call and start
\* fresh, self.model, self.shape_vars and self.decomposed_shapes are kept
solve_again ==
    /\ pc = "done"
    /\ Len(shape_vars) <= (MaxCalls - 1) * NumShapes
    /\ pc' = "start"
    /\ solution' = <<>>
    /\ best_objective_value' = -1
    /\ stop_requested' = FALSE
    /\ last_candidate' = <<>>
    /\ last_stop' = FALSE
    /\ max_offered' = -1
    /\ engine_status' = ""
    /\ result' = <<>>
    /\ UNCHANGED <<inputVars, builtVars, strategy, assignment, decVars, guiVars>>

NextRepeat == solve \/ on_solution_callback \/ process_solution \/ solve_again

SpecRepeat == InitRepeat /\ [][NextRepeat]_vars

(* ------------- main.py: the point-pair form of non-overlap ------------- *)
\* main.py solve_packing lines 48-76: for two used instances no point of one
\* lies on the absolute cell of a point of the other
PointPairsOK(a, i, j) ==
    (a[i].is_used /\ a[j].is_used) =>
        \A p1 \in shape_vars[i].points : \A p2 \in shape_vars[j].points :
            \/ a[i].x + p1[1] # a[j].x + p2[1]
            \/ a[i].y + p1[2] # a[j].y + p2[2]

(* ------------- the assignments the built model admits ------------------ *)
InitAdmit == InitUpTo(MaxModelShapes)

\* solve line 120: the engine reaches one assignment of the model that
\* _create_variables and _add_constraints built
admit_assignment ==
    /\ pc = "search"
    /\ \E a \in Assignments :
        /\ ModelAdmits(a)
        /\ assignment' = <<a>>
    /\ pc' = "assigned"
    /\ UNCHANGED <<inputVars, builtVars, strategy, trackerVars, engine_status,
                   result, decVars, guiVars>>

NextAdmit == solve \/ admit_assignment

SpecAdmit == InitAdmit /\ [][NextAdmit]_vars

(* ------------- arguments no caller-side check has filtered ------------- *)
\* Shape is a plain dataclass (data_models.py lines 6-12): points may be
\* empty and area is whatever the caller wrote
UncheckedShapes ==
    { [name |-> "E", points |-> {}, area |-> 0],
      [name |-> "B", points |-> {<<0, 0>>, <<1, 0>>}, area |-> 3],
      [name |-> "A", points |-> {<<0, 0>>}, area |-> 1] }

\* PackingSolver.__init__ lines 75-83 stores its arguments as given
InitUnchecked ==
    /\ shapes_to_pack \in UNION {[1..n -> UncheckedShapes] : n \in 0..MaxUncheckedShapes}
    /\ board_width \in 0..MaxW
    /\ board_height \in 0..MaxH
    /\ allowed_cells \in SUBSET ((0..(MaxH - 1)) \X (0..(MaxW - 1)))
    /\ must_place_names \in {{}, {s.name : s \in UncheckedShapes}}
    /\ decomposed_shapes = [nm \in {} |-> <<>>]
    /\ shape_vars = <<>>
    /\ strategy = ""
    /\ pc = "start"
    /\ NoTracker
    /\ engine_status = ""
    /\ result = <<>>
    /\ assignment = <<>>
    /\ DecIdle
    /\ GuiIdle

NextUnchecked == solve \/ on_solution_callback \/ process_solution

SpecUnchecked == InitUnchecked /\ [][NextUnchecked]_vars

(* -------------- the decomposer applied to every point set -------------- *)
DecompGrid == (0..(DecompDim - 1)) \X (0..(DecompDim - 1))

\* the points of a set as a list, row by row
RECURSIVE ListOf(_)
ListOf(S) ==
    IF S = {} THEN <<>>
    ELSE LET first == CHOOSE p \in S :
                        \A q \in S : p[2] * DecompDim + p[1] <= q[2] * DecompDim + q[1]
         IN  <<first>> \o ListOf(S \ {first})

Reversed(list) == [k \in 1..Len(list) |-> list[Len(list) + 1 - k]]

\* the callers' lists for one set of points: in row order, in reverse order,
\* and in reverse order with the first point of the set given twice
ListsOf(S) ==
    {ListOf(S), Reversed(ListOf(S))}
        \cup (IF S = {} THEN {} ELSE {Append(Reversed(ListOf(S)), ListOf(S)[1])})

\* decomposition.py line 14: point_set = {tuple(p) for p in points}
PointSet(points) == {points[k] : k \in DOMAIN points}

InitDecomp ==
    /\ shapes_to_pack = <<>>
    /\ board_width = MaxW
    /\ board_height = MaxH
    /\ allowed_cells = {}
    /\ must_place_names = {}
    /\ decomposed_shapes = [nm \in {} |-> <<>>]
    /\ shape_vars = <<>>
    /\ strategy = ""
    /\ pc = "idle"
    /\ NoTracker
    /\ engine_status = ""
    /\ result = <<>>
    /\ assignment = <<>>
    /\ GuiIdle
    /\ \E S \in SUBSET DecompGrid : dec_list \in ListsOf(S)
    /\ dec_points = {}
    /\ dec_rects = <<>>
    /\ dec_pc = "call"

\* decompose_shape_to_rectangles lines 11-52, one call
decompose_call ==
    /\ dec_pc = "call"
    /\ dec_points' = PointSet(dec_list)
    /\ dec_rects' = decompose_shape_to_rectangles(PointSet(dec_list))
    /\ dec_pc' = "returned"
    /\ UNCHANGED <<inputVars, builtVars, strategy, pc, trackerVars,
                   engine_status, result, assignment, dec_list,
                   guiVars>>

NextDecomp == decompose_call

SpecDecomp == InitDecomp /\ [][NextDecomp]_vars

(* ------------------- gui.py: the Calculate button ---------------------- *)
\* texts the time-limit entry may hold when the thread reads it
TimeLimitTexts == {"abc", "30.5", "9", "10", "30", "300", "301"}

\* line 484, int(text): the integer the text denotes; -1 stands for the
\* ValueError of a text that is not an integer (handled like a value < 10)
IntOf(text) ==
    CASE text = "9" -> 9
      [] text = "10" -> 10
      [] text = "30" -> 30
      [] text = "300" -> 300
      [] text = "301" -> 301
      [] OTHER -> -1

\* lines 483-486: the text is an integer in [10, 300]
TimeLimitOK(text) == 10 <= IntOf(text) /\ IntOf(text) <= 300

\* the status strings solve_packing returns (solver.py line 322, result.status.name)
GuiStatuses == {"OPTIMAL", "FEASIBLE", "INFEASIBLE", "UNKNOWN", "MODEL_INVALID"}

\* the callbacks each exit path of calculate_and_update_ui schedules
\* line 463 and line 474
OnNothingToDo == <<[callback |-> "update_ui_with_result", status |-> "None"]>>

\* lines 488-494
OnTimeLimitError == <<[callback |-> "showerror", status |-> "None"]>>

\* line 495
AfterTimeLimitErrorNothing == <<>>

AfterTimeLimitError == <<[callback |-> "enable_button", status |-> "None"]>>

\* line 521
OnResult(status) == <<[callback |-> "update_ui_with_result", status |-> status]>>

\* lines 523-526
OnException == <<[callback |-> "enable_button", status |-> "None"]>>

Running(t) == gui_threads[t] \in {"collect", "cells", "limit", "limit_error", "solving"}

InitGui ==
    /\ shapes_to_pack = <<>>
    /\ board_width = MaxW
    /\ board_height = MaxH
    /\ allowed_cells = {}
    /\ must_place_names = {}
    /\ decomposed_shapes = [nm \in {} |-> <<>>]
    /\ shape_vars = <<>>
    /\ strategy = ""
    /\ pc = "idle"
    /\ NoTracker
    /\ engine_status = ""
    /\ result = <<>>
    /\ assignment = <<>>
    /\ DecIdle
    /\ GuiIdle

\* start_calculation_thread lines 426-439, the command of calculate_button
\* (lines 131-133): a disabled ttk.Button does not invoke its command
press_calculate ==
    /\ gui_button = "normal"
    /\ \E t \in 1..MaxPresses :
        /\ gui_threads[t] = "unstarted"
        /\ \A u \in 1..(t - 1) : gui_threads[u] # "unstarted"
        /\ gui_threads' = [gui_threads EXCEPT ![t] = "collect"]
    /\ gui_button' = "disabled"
    /\ UNCHANGED <<inputVars, builtVars, strategy, pc, trackerVars, engine_status,
                   result, assignment, decVars, gui_queue, gui_solved>>

\* calculate_and_update_ui lines 444-464: the shapes with a positive count
collect_shapes ==
    /\ \E t \in 1..MaxPresses : \E has_shapes \in BOOLEAN :
        /\ gui_threads[t] = "collect"
        /\ IF has_shapes
           THEN /\ gui_threads' = [gui_threads EXCEPT ![t] = "cells"]
                /\ UNCHANGED gui_queue
           ELSE /\ gui_threads' = [gui_threads EXCEPT ![t] = "returned"]
                /\ gui_queue' = gui_queue \o OnNothingToDo
    /\ UNCHANGED <<inputVars, builtVars, strategy, pc, trackerVars, engine_status,
                   result, assignment, decVars, gui_button, gui_solved>>

\* calculate_and_update_ui lines 466-475: the allowed cells of the grid
collect_cells ==
    /\ \E t \in 1..MaxPresses : \E has_cells \in BOOLEAN :
        /\ gui_threads[t] = "cells"
        /\ IF has_cells
           THEN /\ gui_threads' = [gui_threads EXCEPT ![t] = "limit"]
                /\ UNCHANGED gui_queue
           ELSE /\ gui_threads' = [gui_threads EXCEPT ![t] = "returned"]
                /\ gui_queue' = gui_queue \o OnNothingToDo
    /\ UNCHANGED <<inputVars, builtVars, strategy, pc, trackerVars, engine_status,
                   result, assignment, decVars, gui_button, gui_solved>>

\* calculate_and_update_ui lines 479-498: the time limit is read and, when it
\* is valid, solve_packing is called with it
read_time_limit ==
    /\ \E t \in 1..MaxPresses : \E text \in TimeLimitTexts :
        /\ gui_threads[t] = "limit"
        /\ IF TimeLimitOK(text)
           THEN /\ gui_threads' = [gui_threads EXCEPT ![t] = "solving"]
                /\ gui_solved' = gui_solved \cup {IntOf(text)}
                /\ UNCHANGED gui_queue
           ELSE /\ gui_threads' = [gui_threads EXCEPT ![t] = "limit_error"]
                /\ gui_queue' = gui_queue \o OnTimeLimitError
                /\ UNCHANGED gui_solved
    /\ UNCHANGED <<inputVars, builtVars, strategy, pc, trackerVars, engine_status,
                   result, assignment, decVars, gui_button>>

\* calculate_and_update_ui lines 495-496: after the error box is scheduled,
\* the re-enabling is scheduled and the thread returns
after_time_limit_error ==
    /\ \E t \in 1..MaxPresses :
        /\ gui_threads[t] = "limit_error"
        /\ gui_threads' = [gui_threads EXCEPT ![t] = "returned"]
        /\ gui_queue' = gui_queue \o AfterTimeLimitError
    /\ UNCHANGED <<inputVars, builtVars, strategy, pc, trackerVars, engine_status,
                   result, assignment, decVars, gui_button, gui_solved>>

\* calculate_and_update_ui lines 498-521: solve_packing returns within its
\* time limit and the result is scheduled for display
run_solver ==
    /\ \E t \in 1..MaxPresses : \E status \in GuiStatuses :
        /\ gui_threads[t] = "solving"
        /\ gui_threads' = [gui_threads EXCEPT ![t] = "returned"]
        /\ gui_queue' = gui_queue \o OnResult(status)
    /\ UNCHANGED <<inputVars, builtVars, strategy, pc, trackerVars, engine_status,
                   result, assignment, decVars, gui_button, gui_solved>>

\* calculate_and_update_ui lines 523-526: any statement of the thread raised
thread_exception ==
    /\ \E t \in 1..MaxPresses :
        /\ Running(t)
        /\ gui_threads' = [gui_threads EXCEPT ![t] = "returned"]
        /\ gui_queue' = gui_queue \o OnException
    /\ UNCHANGED <<inputVars, builtVars, strategy, pc, trackerVars, engine_status,
                   result, assignment, decVars, gui_button, gui_solved>>

\* the Tk main loop runs the oldest scheduled callback: update_ui_with_result
\* (line 530) and the lambdas of lines 495 and 526 set the button to NORMAL,
\* showerror leaves it alone
run_after ==
    /\ gui_queue # <<>>
    /\ gui_queue' = Tail(gui_queue)
    /\ gui_button' = IF Head(gui_queue).callback \in {"update_ui_with_result", "enable_button"}
                     THEN "normal" ELSE gui_button
    /\ UNCHANGED <<inputVars, builtVars, strategy, pc, trackerVars, engine_status,
                   result, assignment, decVars, gui_threads, gui_solved>>

ThreadStep ==
    \/ collect_shapes \/ collect_cells \/ read_time_limit \/ after_time_limit_error
    \/ run_solver \/ thread_exception

NextGui ==
    \/ press_calculate
    \/ collect_shapes
    \/ collect_cells
    \/ read_time_limit
    \/ after_time_limit_error
    \/ run_solver
    \/ thread_exception
    \/ run_after

\* a started thread keeps running, the solver returns within its time limit,
\* and the main loop keeps serving its queue
SpecGui == InitGui /\ [][NextGui]_vars /\ WF_vars(ThreadStep) /\ WF_vars(run_after)

(* ------------------------------ properties ----------------------------- *)
Returned == result # <<>>
Placed == result[1].placed_shapes
Unplaced == result[1].unplaced_shapes

\* the absolute cells <<column, row>> of a placed shape
PlacedCells(ps) == {<<ps.x + p[1], ps.y + p[2]>> : p \in ps.points}

CellsOf(placed) == UNION {PlacedCells(placed[k]) : k \in DOMAIN placed}

PairwiseDisjoint(placed) ==
    \A i \in DOMAIN placed : \A j \in DOMAIN placed :
        i # j => PlacedCells(placed[i]) \cap PlacedCells(placed[j]) = {}

AllAdmissible(placed) ==
    \A c \in CellsOf(placed) : <<c[2], c[1]>> \in allowed_cells

AllInBounds(placed) ==
    \A c \in CellsOf(placed) :
        /\ 0 <= c[1] /\ c[1] < board_width
        /\ 0 <= c[2] /\ c[2] < board_height

CountName(names, nm) == Cardinality({k \in DOMAIN names : names[k] = nm})
CountPlaced(placed, nm) == Cardinality({k \in DOMAIN placed : placed[k].name = nm})

\* instance i has a translation within its domains with every cell admissible
HasAdmissiblePosition(i) ==
    \E x \in XDomain(shapes_to_pack[i]) : \E y \in YDomain(shapes_to_pack[i]) :
        \A p \in shapes_to_pack[i].points : <<y + p[2], x + p[1]>> \in allowed_cells

\* C1: in every returned PackingResult, and in every candidate the built
\* model admits, two distinct placed shapes share no absolute cell.
C1_NonOverlap ==
    /\ Returned => PairwiseDisjoint(Placed)
    /\ last_candidate # <<>> => PairwiseDisjoint(last_candidate[1].placed_shapes)

\* C2: every absolute cell (row y+dy, column x+dx) of a placed shape, in the
\* result and in every candidate, is an admissible cell; instances that are
\* not used are not held to it.
C2_Admissible ==
    /\ Returned => AllAdmissible(Placed)
    /\ last_candidate # <<>> => AllAdmissible(last_candidate[1].placed_shapes)

\* a result with a placed shape, on a board with inadmissible cells, in which
\* an instance with no admissible position at all was left unplaced
C2_Witness ==
    /\ Returned
    /\ Len(Placed) >= 1
    /\ \E i \in 1..NumShapes :
          /\ ~HasAdmissiblePosition(i)
          /\ CountName(Unplaced, shapes_to_pack[i].name) >= 1
          /\ CountPlaced(Placed, shapes_to_pack[i].name) = 0

\* C3: every cell of every placed shape, in the result and in every
\* candidate, has its column in [0, W) and its row in [0, H).
C3_InBounds ==
    /\ Returned => AllInBounds(Placed)
    /\ last_candidate # <<>> => AllInBounds(last_candidate[1].placed_shapes)

\* a result that places a shape against the right and the bottom edge
C3_Witness ==
    /\ Returned
    /\ \E k \in DOMAIN Placed :
          /\ \E c \in PlacedCells(Placed[k]) : c[1] = board_width - 1
          /\ \E c \in PlacedCells(Placed[k]) : c[2] = board_height - 1
          /\ Cardinality(Placed[k].points) >= 2

\* C4: when the returned status is Optimal or Feasible, every requested
\* instance with a pinned name is in placed_shapes and none is unplaced.
C4_PinHonored ==
    (Returned /\ result[1].status \in {"OPTIMAL", "FEASIBLE"}) =>
        \A nm \in must_place_names :
            /\ CountName(Unplaced, nm) = 0
            /\ CountPlaced(Placed, nm) = CountName(AllNames, nm)

\* a Feasible or Optimal result with a pinned instance placed and another,
\* unpinned one, left out
C4_Witness ==
    /\ Returned
    /\ result[1].status \in {"OPTIMAL", "FEASIBLE"}
    /\ \E nm \in must_place_names : CountPlaced(Placed, nm) >= 1
    /\ Len(Unplaced) >= 1

\* C5: for every terminal status, placed_shapes and unplaced_shapes together
\* hold as many entries as instances were requested, name by name.
C5_Partition ==
    Returned =>
        /\ Len(Placed) + Len(Unplaced) = NumShapes
        /\ \A nm \in ShapeNames :
              CountPlaced(Placed, nm) + CountName(Unplaced, nm) = CountName(AllNames, nm)

\* a result built from a tracker solution that splits two instances of one name
C5_Witness ==
    /\ Returned
    /\ solution # <<>>
    /\ \E nm \in ShapeNames : CountPlaced(Placed, nm) = 1 /\ CountName(Unplaced, nm) = 1

\* C6: the rectangles returned for a point set are pairwise disjoint and
\* their cells together are exactly the point set.
C6_DecompositionPartition ==
    dec_pc = "returned" =>
        /\ UNION {RectCells(dec_rects[k]) : k \in DOMAIN dec_rects} = dec_points
        /\ \A i \in DOMAIN dec_rects : \A j \in DOMAIN dec_rects :
              i # j => RectCells(dec_rects[i]) \cap RectCells(dec_rects[j]) = {}

\* a decomposition of three or more rectangles where a partial row stopped
\* the growth of a rectangle wider than one cell
C6_Witness ==
    /\ dec_pc = "returned"
    /\ Len(dec_rects) >= 3
    /\ \E k \in DOMAIN dec_rects :
          /\ dec_rects[k][3] >= 2
          /\ <<dec_rects[k][1], dec_rects[k][2] + dec_rects[k][4]>> \in dec_points

\* C7: after any sequence of callbacks the retained area is the largest
\* area offered so far, and the retained lists are those of one candidate
\* that was offered with that area.
C7_TrackerKeepsBest ==
    /\ [](/\ best_objective_value = max_offered
          /\ (last_candidate # <<>>) = (solution # <<>>))
    /\ [][solution' # solution =>
            /\ solution' = <<[placed_shapes |-> last_candidate'[1].placed_shapes,
                              unplaced_shapes |-> last_candidate'[1].unplaced_shapes]>>
            /\ best_objective_value' = last_candidate'[1].area]_vars

\* a callback after a stop request offered a smaller candidate than the one
\* retained
C7_Witness ==
    /\ stop_requested
    /\ ~last_stop
    /\ last_candidate # <<>>
    /\ last_candidate[1].area < best_objective_value
    /\ solution[1].placed_shapes # last_candidate[1].placed_shapes

\* C8: the retained area never decreases, and the retained solution changes
\* only in a callback whose candidate is strictly larger than it.
C8_Monotonic ==
    [][/\ best_objective_value' >= best_objective_value
       /\ solution' # solution => last_candidate'[1].area > best_objective_value]_vars

\* a candidate of the retained area, other than the retained one, was offered
C8_Witness ==
    /\ last_candidate # <<>>
    /\ last_candidate[1].area = best_objective_value
    /\ solution[1].placed_shapes # last_candidate[1].placed_shapes

\* C9: the strategy is P0 when the requested area fits the admissible cells
\* and P1 otherwise, it does not change during the search, and a callback
\* requests a stop exactly for a P0 candidate placing every instance or a P1
\* candidate filling every admissible cell.
C9_StrategyAndStop ==
    /\ [](pc = "search" =>
            /\ strategy = IF TotalShapeArea(NumShapes) <= Cardinality(allowed_cells)
                          THEN "P0" ELSE "P1"
            /\ last_candidate # <<>> =>
                  (last_stop <=>
                      \/ strategy = "P0" /\ last_candidate[1].count = Len(shapes_to_pack)
                      \/ strategy = "P1" /\ last_candidate[1].area = Cardinality(allowed_cells)))
    /\ [][pc = "search" => strategy' = strategy]_vars

\* under P1 a callback requested a stop and a later callback requested none
C9_Witness ==
    /\ pc = "search"
    /\ strategy = "P1"
    /\ stop_requested
    /\ ~last_stop

C12_PerfectStopIsOptimal ==
    (Returned /\ stop_requested) => result[1].status = "OPTIMAL"

\* C13: with an empty admissible set, solve returns Infeasible with nothing
\* placed and every instance unplaced; no variable set, no decomposition and
\* no strategy was made, the engine did not run and no callback was invoked.
C13_EmptyBoardShortCircuit ==
    (allowed_cells = {} /\ pc # "start") =>
        /\ pc = "done"
        /\ Returned
        /\ result[1].status = "INFEASIBLE"
        /\ Placed = <<>>
        /\ Unplaced = [k \in 1..Len(shapes_to_pack) |-> shapes_to_pack[k].name]
        /\ shape_vars = <<>>
        /\ DOMAIN decomposed_shapes = {}
        /\ strategy = ""
        /\ engine_status = ""
        /\ last_candidate = <<>>
        /\ solution = <<>>

\* solve returned for two pinned instances and no admissible cell
C13_Witness ==
    /\ allowed_cells = {}
    /\ Returned
    /\ NumShapes = 2
    /\ \A k \in 1..NumShapes : shapes_to_pack[k].name \in must_place_names

\* the placements of the requested instances by translation:
\* (is_used, x, y) with every cell of a used instance on the board
GeoPlacements ==
    {g \in [1..NumShapes -> [is_used : BOOLEAN,
                             x : 0..(board_width - 1),
                             y : 0..(board_height - 1)]] :
        \A i \in 1..NumShapes : \A p \in shapes_to_pack[i].points :
            g[i].is_used => /\ g[i].x + p[1] < board_width
                            /\ g[i].y + p[2] < board_height}

GeoCells(g, i) == {<<g[i].x + p[1], g[i].y + p[2]>> : p \in shapes_to_pack[i].points}

\* admissible, pairwise non-overlapping, every pinned instance included
GeoValid(g) ==
    /\ \A i \in 1..NumShapes :
          g[i].is_used => \A c \in GeoCells(g, i) : <<c[2], c[1]>> \in allowed_cells
    /\ \A i \in 1..NumShapes : \A j \in 1..NumShapes :
          (i # j /\ g[i].is_used /\ g[j].is_used) => GeoCells(g, i) \cap GeoCells(g, j) = {}
    /\ \A i \in 1..NumShapes :
          shapes_to_pack[i].name \in must_place_names => g[i].is_used

RECURSIVE GeoArea(_, _)
GeoArea(g, n) ==
    IF n = 0 THEN 0
    ELSE GeoArea(g, n - 1) + (IF g[n].is_used THEN shapes_to_pack[n].area ELSE 0)

\* the largest area of a valid placement, -1 when there is none
GeometricOptimum ==
    LET vals == {GeoArea(g, NumShapes) : g \in {h \in GeoPlacements : GeoValid(h)}}
    IN  IF vals = {} THEN -1 ELSE CHOOSE m \in vals : \A v \in vals : v <= m

RECURSIVE PlacedArea(_, _)
PlacedArea(placed, n) ==
    IF n = 0 THEN 0 ELSE PlacedArea(placed, n - 1) + Cardinality(placed[n].points)

\* C14: when the returned status is Optimal, the area of placed_shapes is the
\* largest area of any in-bounds, admissible, non-overlapping placement of
\* requested instances that includes every pinned instance.
C14_OptimalIsMaximum ==
    (Returned /\ result[1].status = "OPTIMAL") =>
        PlacedArea(Placed, Len(Placed)) = GeometricOptimum

\* C15: whatever the number of solve calls made on one PackingSolver, the
\* model holds exactly one variable set per requested instance, and a
\* returned result lists every requested instance exactly once.
C15_RepeatedSolveIsFresh ==
    /\ (pc \in {"search", "done"} /\ ~ShortCircuits) => Len(shape_vars) = NumShapes
    /\ Returned => Len(Placed) + Len(Unplaced) = NumShapes

SameName(i, j) == shape_vars[i].name = shape_vars[j].name

\* C16 (as stated): in every assignment the model admits, any two used
\* instances of one name with request indices i < j have x_i <= x_j.
C16_TotalOrder ==
    assignment # <<>> =>
        \A i \in Instances : \A j \in Instances :
            (i < j /\ SameName(i, j) /\ assignment[1][i].is_used /\ assignment[1][j].is_used)
                => assignment[1][i].x <= assignment[1][j].x

\* C16 (amended): in every assignment the model admits, two used instances
\* of one name with i < j have x_i <= x_j whenever every instance of that
\* name between them is used too.
C16_OrderAlongUsedRuns ==
    assignment # <<>> =>
        \A i \in Instances : \A j \in Instances :
            (/\ i < j
             /\ SameName(i, j)
             /\ \A k \in Instances :
                   (i <= k /\ k <= j /\ SameName(i, k)) => assignment[1][k].is_used)
                => assignment[1][i].x <= assignment[1][j].x

\* three used instances of one name, the first strictly left of the last
C16_Witness ==
    /\ assignment # <<>>
    /\ Len(shape_vars) = 3
    /\ \A i \in Instances : SameName(1, i) /\ assignment[1][i].is_used
    /\ assignment[1][1].x < assignment[1][3].x

\* every requested instance is the same shape: interchangeable instances
IdenticalRequest ==
    /\ NumShapes >= 2
    /\ \A i \in 1..NumShapes : shapes_to_pack[i] = shapes_to_pack[1]

RECURSIVE GeoCount(_, _)
GeoCount(g, n) ==
    IF n = 0 THEN 0 ELSE GeoCount(g, n - 1) + (IF g[n].is_used THEN 1 ELSE 0)

\* the largest number of instances a valid placement holds, -1 without one
PlaceableNumber ==
    LET vals == {GeoCount(g, NumShapes) : g \in {h \in GeoPlacements : GeoValid(h)}}
    IN  IF vals = {} THEN -1 ELSE CHOOSE m \in vals : \A v \in vals : v <= m

\* the candidate last delivered reaches the model's optimum
OptimalCandidate ==
    /\ last_candidate # <<>>
    /\ last_candidate[1].area = OptimalValue

\* C17 (as stated): for interchangeable instances an optimal candidate places
\* the placeable number and uses the lower-indexed instances: a used instance
\* has every lower-indexed instance of its shape used.
C17_LowerIndexedUsed ==
    (IdenticalRequest /\ OptimalCandidate) =>
        /\ last_candidate[1].count = PlaceableNumber
        /\ \A i \in Instances : \A j \in Instances :
              (i < j /\ last_candidate[1].is_used[j]) => last_candidate[1].is_used[i]

\* C17 (amended): for interchangeable instances a result with status Optimal
\* lists exactly the placeable number as placed and the rest as unplaced.
C17_PlaceableNumberPlaced ==
    (IdenticalRequest /\ Returned /\ result[1].status = "OPTIMAL") =>
        /\ Len(Placed) = PlaceableNumber
        /\ Len(Unplaced) = NumShapes - PlaceableNumber

\* only one of two interchangeable instances can be placed, and the Optimal
\* result is the candidate that uses the second of them, not the first
C17_Witness ==
    /\ IdenticalRequest
    /\ Returned
    /\ result[1].status = "OPTIMAL"
    /\ last_candidate # <<>>
    /\ last_candidate[1].is_used[2]
    /\ ~last_candidate[1].is_used[1]
    /\ last_candidate[1].placed_shapes = Placed
    /\ last_candidate[1].area = best_objective_value
    /\ PlaceableNumber = 1

\* no placement by translation is admissible, non-overlapping and holds
\* every pinned instance: some pinned instance cannot be placed
PinsUnplaceable == \A g \in GeoPlacements : ~GeoValid(g)

\* C18: when the pinned instances cannot all be placed, on admissible cells
\* and without overlap, no candidate is ever delivered to the callback and
\* the result is Infeasible with no placed shape.
C18_UnplaceablePinInfeasible ==
    PinsUnplaceable =>
        /\ last_candidate = <<>>
        /\ solution = <<>>
        /\ Returned => (result[1].status = "INFEASIBLE" /\ Placed = <<>>)

\* a board dimension <= 0, a shape without points, or a shape whose area is
\* not its number of points
InvalidInput ==
    \/ board_width <= 0
    \/ board_height <= 0
    \/ \E k \in 1..NumShapes :
          \/ shapes_to_pack[k].points = {}
          \/ shapes_to_pack[k].area # Cardinality(shapes_to_pack[k].points)

\* C19: for an invalid input (a board dimension <= 0, a shape without points,
\* a shape whose area is not its number of points) no variable set and no
\* decomposition is ever made, no search runs, and no result reports a
\* packing.
C19_InvalidInputRejected ==
    InvalidInput =>
        /\ shape_vars = <<>>
        /\ DOMAIN decomposed_shapes = {}
        /\ pc # "search"
        /\ last_candidate = <<>>
        /\ Returned => result[1].status \notin {"OPTIMAL", "FEASIBLE"}

\* the points not covered by the first k - 1 returned rectangles
Remaining(k) ==
    dec_points \ UNION {RectCells(dec_rects[m]) : m \in 1..(k - 1)}

\* C20: the returned list is the greedy scanline decomposition of the set of
\* the given points, whatever their order and repetitions: each rectangle
\* starts at the remaining point smallest by (y, x), is as wide as the run of
\* remaining points to its right, and as high as the rows below stay fully
\* present; nothing remains at the end; no point gives the empty list and
\* one point gives one 1x1 rectangle.
C20_GreedyScanline ==
    dec_pc = "returned" =>
        /\ dec_points = {dec_list[n] : n \in DOMAIN dec_list}
        /\ \A k \in DOMAIN dec_rects :
              LET R == Remaining(k)
                  x == dec_rects[k][1]
                  y == dec_rects[k][2]
                  w == dec_rects[k][3]
                  h == dec_rects[k][4]
              IN  /\ <<x, y>> \in R
                  /\ \A q \in R : y < q[2] \/ (y = q[2] /\ x <= q[1])
                  /\ w >= 1 /\ h >= 1
                  /\ \A i \in 0..(w - 1) : \A j \in 0..(h - 1) : <<x + i, y + j>> \in R
                  /\ <<x + w, y>> \notin R
                  /\ \E i \in 0..(w - 1) : <<x + i, y + h>> \notin R
        /\ Remaining(Len(dec_rects) + 1) = {}
        /\ dec_list = <<>> => dec_rects = <<>>
        /\ \A p \in dec_points :
              dec_points = {p} => dec_rects = << <<p[1], p[2], 1, 1>> >>

\* points given out of scanline order with one of them twice, decomposed
\* into several rectangles of which one is at least 2 x 2
C20_Witness ==
    /\ dec_pc = "returned"
    /\ Len(dec_list) > Cardinality(dec_points)
    /\ dec_list[1] # MinPoint(dec_points)
    /\ Len(dec_rects) >= 2
    /\ \E k \in DOMAIN dec_rects : dec_rects[k][3] >= 2 /\ dec_rects[k][4] >= 2

\* C21: a callback that fires the perfect-solution stop leaves the retained
\* area equal to the area of its candidate, and once a stop was fired no
\* later callback of the search replaces the retained solution.
C21_PerfectNeverDisplaced ==
    [][/\ (pc = "search" /\ pc' = "search" /\ last_stop')
            => best_objective_value' = last_candidate'[1].area
       /\ stop_requested
            => (solution' = solution /\ best_objective_value' = best_objective_value)]_vars

\* the no-overlap constraint restricted to the boxes of two instances
PairNoOverlap(a, i, j) ==
    (a[i].is_used /\ a[j].is_used) =>
        \A b1 \in Boxes(a) : \A b2 \in Boxes(a) :
            (b1[1] = i /\ b2[1] = j) => BoxesDisjoint(b1, b2)

\* C22: in the built model the rectangles attached to every instance cover
\* exactly that instance's own points, and for every pair of instances of any
\* assignment the no-overlap constraint over their rectangles holds exactly
\* when no absolute cell is shared by the two.
C22_EncodingExact ==
    pc = "search" =>
        /\ \A i \in Instances :
              UNION {RectCells(decomposed_shapes[shape_vars[i].name][k]) :
                        k \in DOMAIN decomposed_shapes[shape_vars[i].name]}
                  = shape_vars[i].points
        /\ \A a \in Assignments : \A i \in Instances : \A j \in Instances :
              i < j => (PairNoOverlap(a, i, j) <=> PointPairsOK(a, i, j))

\* C23: with no pinned name and at least one admissible cell the built model
\* admits the assignment in which no instance is used, whatever the shapes
\* and the board, and the result is never Infeasible.
C23_UnpinnedSatisfiable ==
    (must_place_names = {} /\ allowed_cells # {}) =>
        /\ pc = "search" =>
              \E a \in Assignments :
                  ModelAdmits(a) /\ \A i \in Instances : ~a[i].is_used
        /\ Returned => result[1].status # "INFEASIBLE"

\* the model without its symmetry-breaking constraints
AdmitsWithoutSymmetry(a) ==
    /\ a \in Assignments
    /\ MustPlaceOK(a)
    /\ AllowedOK(a)
    /\ NoOverlapOK(a)

OptimalValueWithoutSymmetry ==
    LET vals == {Objective(a) : a \in {b \in Assignments : AdmitsWithoutSymmetry(b)}}
    IN  IF vals = {} THEN -1 ELSE SetMax(vals)

\* how many used instances carry each name, and the total area
PlacementKey(f, n) ==
    <<[nm \in {shapes_to_pack[k].name : k \in 1..n} |->
          Cardinality({k \in 1..n : f[k].is_used /\ shapes_to_pack[k].name = nm})],
      GeoArea(f, n)>>

\* C24: every in-bounds, admissible, non-overlapping, pin-respecting
\* placement has an assignment of the built model (symmetry breaking
\* included) with the same multiset of placed names and the same area, and
\* the model's optimal area is the same with and without symmetry breaking.
C24_SymmetryOnlyRedundant ==
    (pc = "search" /\ Len(shape_vars) = NumShapes) =>
        /\ {PlacementKey(g, NumShapes) : g \in {h \in GeoPlacements : GeoValid(h)}}
              \subseteq {PlacementKey(a, NumShapes) : a \in {b \in Assignments : ModelAdmits(b)}}
        /\ OptimalValue = OptimalValueWithoutSymmetry

\* C25: a calculation thread starts only from an enabled Calculate button,
\* and starting it disables the button; at most one thread runs at a time
\* and the button is disabled while it runs; solve_packing is called only
\* with a time limit in [10, 300]; and whichever way the thread exits, the
\* disabled button is eventually enabled again.
C25_CalculateButton ==
    /\ [][(\E t \in 1..MaxPresses : gui_threads[t] = "unstarted" /\ gui_threads'[t] # "unstarted")
            => (gui_button = "normal" /\ gui_button' = "disabled")]_vars
    /\ [](Cardinality({t \in 1..MaxPresses : Running(t)}) <= 1)
    /\ []((\E t \in 1..MaxPresses : Running(t)) => gui_button = "disabled")
    /\ [](\A limit \in gui_solved : 10 <= limit /\ limit <= 300)
    /\ (gui_button = "disabled") ~> (gui_button = "normal")

\* every calculation came and went, one through the solver, and the button
\* is enabled again with nothing left in the queue
C25_Witness ==
    /\ \A t \in 1..MaxPresses : gui_threads[t] = "returned"
    /\ Cardinality(gui_solved) = 1
    /\ gui_queue = <<>>
    /\ gui_button = "normal"

====
